---------------------------- MODULE Spec2Model ----------------------------
(***************************************************************************)
(* Model of updater/workflowy.py: the workflowy tree is flattened into an  *)
(* id -> item mapping, the subtrees of the items tagged #microstuff are    *)
(* walked for (time, value, comment) observations, and update() replaces   *)
(* the rows stored under each metric name inside one transaction.          *)
(*                                                                         *)
(* A text is a sequence of tokens.  A token is a one-character string, or  *)
(* the name of a <time ...>...</time> element ("T1", "T2", ...).  Raw(text) *)
(* is the character sequence of the text (the element written out as its   *)
(* markup): the regular expressions of the source work on Raw(text), the   *)
(* lxml element lookup of parse_datetime works on the element tokens.      *)
(***************************************************************************)
EXTENDS Integers, Sequences, FiniteSets, Bags, TLC

\* Optional[X]: None is the empty sequence, a value x is <<x>>
None == <<>>
Some(x) == <<x>>

\* What a call that may raise gives: the exception's name ("" when it returns)
\* and the value returned
Return(v) == [exc |-> "", val |-> v]
Raise(e, v) == [exc |-> e, val |-> v]

\* Op(v), with v evaluated once: a local variable
With(v, Op(_)) == CHOOSE res \in {Op(x) : x \in {v}} : TRUE

-----------------------------------------------------------------------------
(* Bounds of the model *)

\* flatten inputs: at most this many nodes, identifiers drawn from 1..NumIds
MaxFlatNodes == 3
NumIds == 3
\* extraction inputs: at most this many items below the tagged root
MaxSubNodes == 3
\* update inputs: tagged roots per document, numeric items per date anchor
MaxRoots == 2
MaxLeaves == 1
\* update() runs on the same snapshot
MaxRuns == 2
\* parse_datetime inputs: texts of at most this many tokens
MaxTextLen == 3

-----------------------------------------------------------------------------
(* Characters *)

UpperSeq == <<"A","B","C","D","E","F","G","H","I","J","K","L","M","N","O","P","Q","R","S","T","U","V","W","X","Y","Z">>
LowerSeq == <<"a","b","c","d","e","f","g","h","i","j","k","l","m","n","o","p","q","r","s","t","u","v","w","x","y","z">>
DigitSeq == <<"0","1","2","3","4","5","6","7","8","9">>

Range(s) == {s[i] : i \in DOMAIN s}

Uppers == Range(UpperSeq)
Letters == Range(UpperSeq) \cup Range(LowerSeq)
Digits == Range(DigitSeq)

\* \d of re, and \p{Nd} of regex, on the characters of the model
IsDigit(c) == c \in Digits
\* \w of re: what \b separates from the rest
IsWord(c) == c \in Letters \cup Digits \cup {"_"}
\* \s, and what str.strip() removes
IsSpace(c) == c = " "

\* str.lower() on one character
LowerChar(c) ==
    IF c \in Uppers
    THEN LowerSeq[CHOOSE i \in DOMAIN UpperSeq : UpperSeq[i] = c]
    ELSE c

\* str.lower()
Lower(s) == [i \in DOMAIN s |-> LowerChar(s[i])]

\* the value of one decimal digit
DigitVal(c) == (CHOOSE i \in DOMAIN DigitSeq : DigitSeq[i] = c) - 1

\* the number a run of decimal digits denotes: int(s), float(s) for such a run
RECURSIVE DigitsToInt(_)
DigitsToInt(s) ==
    IF s = <<>> THEN 0
    ELSE 10 * DigitsToInt(SubSeq(s, 1, Len(s) - 1)) + DigitVal(s[Len(s)])

\* int(string): the number a run of decimal digits denotes; int(None) raises
\* a TypeError, int("x") and int("") a ValueError
PyInt(string) ==
    IF string = None THEN Raise("TypeError", 0)
    ELSE IF string[1] # <<>> /\ \A i \in DOMAIN string[1] : IsDigit(string[1][i])
         THEN Return(DigitsToInt(string[1]))
         ELSE Raise("ValueError", 0)

\* str.strip(chars)
RECURSIVE LStrip(_, _)
LStrip(s, chars) ==
    IF s # <<>> /\ s[1] \in chars THEN LStrip(Tail(s), chars) ELSE s

RECURSIVE RStrip(_, _)
RStrip(s, chars) ==
    IF s # <<>> /\ s[Len(s)] \in chars
    THEN RStrip(SubSeq(s, 1, Len(s) - 1), chars)
    ELSE s

Strip(s, chars) == RStrip(LStrip(s, chars), chars)

\* str.replace(old, new): every non-overlapping occurrence, left to right
RECURSIVE Replace(_, _, _)
Replace(s, old, new) ==
    IF Len(s) < Len(old) THEN s
    ELSE IF SubSeq(s, 1, Len(old)) = old
         THEN new \o Replace(SubSeq(s, Len(old) + 1, Len(s)), old, new)
         ELSE <<s[1]>> \o Replace(Tail(s), old, new)

-----------------------------------------------------------------------------
(* <time> elements *)

\* The elements the texts of the model embed: the attributes as lxml reports
\* them (names lower-cased, values strings) and the displayed text.
TimeElems ==
    [T1 |-> [attrs |-> [startyear |-> <<"2","0","2","3">>, startmonth |-> <<"1">>,
                        startday |-> <<"1">>],
             inner |-> <<"S","u","n",","," ","J","a","n"," ","1",","," ","2","0","2","3">>],
     T2 |-> [attrs |-> [startyear |-> <<"2","0","2","3">>, startmonth |-> <<"1">>,
                        startday |-> <<"2","8">>],
             inner |-> <<"S","a","t",","," ","J","a","n"," ","2","8",","," ","2","0","2","3">>],
     \* with a time of day: 9:30
     T3 |-> [attrs |-> [startyear |-> <<"2","0","2","3">>, startmonth |-> <<"1">>,
                        startday |-> <<"2","8">>, starthour |-> <<"9">>,
                        startminute |-> <<"3","0">>],
             inner |-> <<"S","a","t",","," ","J","a","n"," ","2","8",","," ","2","0","2","3">>],
     \* with an hour that is no integer
     T4 |-> [attrs |-> [startyear |-> <<"2","0","2","3">>, startmonth |-> <<"1">>,
                        startday |-> <<"2","8">>, starthour |-> <<"x">>],
             inner |-> <<"S","a","t",","," ","J","a","n"," ","2","8",","," ","2","0","2","3">>],
     \* with a second that is the empty string
     T5 |-> [attrs |-> [startyear |-> <<"2","0","2","3">>, startmonth |-> <<"1">>,
                        startday |-> <<"2","8">>, startsecond |-> <<>>],
             inner |-> <<"S","a","t",","," ","J","a","n"," ","2","8",","," ","2","0","2","3">>]]

TimeTokens == DOMAIN TimeElems

\* The attributes in the order workflowy writes them, with the markup that
\* opens each
AttrOrder == <<"startyear", "startmonth", "startday", "starthour", "startminute", "startsecond">>

AttrMarkup ==
    [startyear   |-> <<" ","s","t","a","r","t","Y","e","a","r","=","\"">>,
     startmonth  |-> <<" ","s","t","a","r","t","M","o","n","t","h","=","\"">>,
     startday    |-> <<" ","s","t","a","r","t","D","a","y","=","\"">>,
     starthour   |-> <<" ","s","t","a","r","t","H","o","u","r","=","\"">>,
     startminute |-> <<" ","s","t","a","r","t","M","i","n","u","t","e","=","\"">>,
     startsecond |-> <<" ","s","t","a","r","t","S","e","c","o","n","d","=","\"">>]

\* Element.get(name): the attribute's value, None when the element has none
Get(elem, name) ==
    IF name \in DOMAIN elem.attrs THEN Some(elem.attrs[name]) ELSE None

RECURSIVE AttrsMarkup(_, _)
AttrsMarkup(elem, k) ==
    IF k > Len(AttrOrder) THEN <<>>
    ELSE (IF Get(elem, AttrOrder[k]) = None THEN <<>>
          ELSE AttrMarkup[AttrOrder[k]] \o Get(elem, AttrOrder[k])[1] \o <<"\"">>)
         \o AttrsMarkup(elem, k + 1)

\* <time startYear="2023" startMonth="1" startDay="28">Sat, Jan 28, 2023</time>
Markup(tok) ==
    <<"<","t","i","m","e">> \o AttrsMarkup(TimeElems[tok], 1) \o <<">">>
    \o TimeElems[tok].inner \o <<"<","/","t","i","m","e",">">>

\* The characters of a text
RECURSIVE Raw(_)
Raw(text) ==
    IF text = <<>> THEN <<>>
    ELSE (IF text[1] \in TimeTokens THEN Markup(text[1]) ELSE <<text[1]>>)
         \o Raw(Tail(text))

-----------------------------------------------------------------------------
(* find_tags *)

\* [(),.!?;:\/\[\]] or \s: what may stand before and after a tag
TagBoundary == {"(", ")", ",", ".", "!", "?", ";", ":", "/", "[", "]"}
IsTagBoundary(c) == IsSpace(c) \/ c \in TagBoundary

\* [\p{L}\p{Nd}] and [\p{L}\p{Nd}\-_']
IsTagStart(c) == c \in Letters \cup Digits
IsTagChar(c) == IsTagStart(c) \/ c \in {"-", "_", "'"}

\* [\p{L}\p{Nd}][\p{L}\p{Nd}\-_']*(:([\p{L}\p{Nd}][\p{L}\p{Nd}\-_']*))*
IsLabel(s) ==
    /\ s # <<>>
    /\ IsTagStart(s[1])
    /\ \A i \in DOMAIN s :
          \/ IsTagChar(s[i])
          \/ s[i] = ":" /\ i < Len(s) /\ IsTagStart(s[i + 1])

\* The ends e of a match of WORKFLOWY_TAG_REGEX whose marker is s[p]: the
\* label s[p+1..e] has the shape, and the lookahead (?=$|\s|[...]) holds
TagEnds(s, p) ==
    {e \in (p + 1)..Len(s) :
        /\ IsLabel(SubSeq(s, p + 1, e))
        /\ (e = Len(s) \/ IsTagBoundary(s[e + 1]))}

\* The markers of the matches: # or @ at the start or after a boundary
\* character, with a label behind it
TagStarts(s) ==
    {p \in DOMAIN s :
        /\ s[p] \in {"#", "@"}
        /\ (p = 1 \/ IsTagBoundary(s[p - 1]))
        /\ TagEnds(s, p) # {}}

\* m[2] of a match: the label without its marker; the quantifiers are greedy,
\* so the longest end wins
MaxOf(S) == CHOOSE e \in S : \A f \in S : f <= e
TagLabel(s, p) == SubSeq(s, p + 1, MaxOf(TagEnds(s, p)))

\* WORKFLOWY_NOT_TAG_REGEX: ^[0-9]{1,3}$
IsNotTag(label) == Len(label) \in 1..3 /\ \A i \in DOMAIN label : IsDigit(label[i])

MICROSTUFF_TAG_NAME == <<"m","i","c","r","o","s","t","u","f","f">>

find_tags(text) ==
    With(Raw(text), LAMBDA s :
        LET matches == {TagLabel(s, p) : p \in TagStarts(s)}
        IN  {Lower(m) : m \in {l \in matches : ~IsNotTag(l)}})

-----------------------------------------------------------------------------
(* parse_datetime, maybe_int, parse_value_and_comment *)

\* int(string) for a string that is neither None nor empty, else None
maybe_int(string) ==
    IF string # None /\ string[1] # <<>>
    THEN LET n == PyInt(string) IN [exc |-> n.exc, val |-> Some(n.val)]
    ELSE Return(None)

\* maybe_int(x) or 0
OrZero(r) == [exc |-> r.exc, val |-> IF r.val = None THEN 0 ELSE r.val[1]]

IsLeap(y) == (y % 4 = 0 /\ y % 100 # 0) \/ y % 400 = 0
DaysIn(y, m) ==
    IF m = 2 THEN (IF IsLeap(y) THEN 29 ELSE 28)
    ELSE IF m \in {4, 6, 9, 11} THEN 30 ELSE 31

\* datetime(year, month, day, hour, minute, second, tzinfo=Europe/Berlin):
\* the instant as <<year, month, day, hour, minute, second>>.  The arguments
\* are evaluated in order, so the first that raises decides; a field out of
\* range is a ValueError
datetime(year, month, day, hour, minute, second) ==
    LET args == <<year, month, day, hour, minute, second>>
        bad == {i \in DOMAIN args : args[i].exc # ""}
    IN  IF bad # {}
        THEN Raise(args[CHOOSE i \in bad : \A j \in bad : i <= j].exc, None)
        ELSE IF /\ year.val \in 1..9999
                /\ month.val \in 1..12
                /\ day.val \in 1..DaysIn(year.val, month.val)
                /\ hour.val \in 0..23
                /\ minute.val \in 0..59
                /\ second.val \in 0..59
             THEN Return(Some(<<year.val, month.val, day.val,
                                hour.val, minute.val, second.val>>))
             ELSE Raise("ValueError", None)

\* The <time> elements lxml finds in the text: the parsed element itself, or
\* the first one among its children
TimeElemsOf(text) == SelectSeq(text, LAMBDA tok : tok \in TimeTokens)

parse_datetime(item_text) ==
    IF item_text = <<>> THEN Return(None)
    ELSE IF TimeElemsOf(item_text) = <<>> THEN Return(None)
    ELSE LET time_elem == TimeElems[TimeElemsOf(item_text)[1]]
         IN  datetime(PyInt(Get(time_elem, "startyear")),
                      PyInt(Get(time_elem, "startmonth")),
                      PyInt(Get(time_elem, "startday")),
                      OrZero(maybe_int(Get(time_elem, "starthour"))),
                      OrZero(maybe_int(Get(time_elem, "startminute"))),
                      OrZero(maybe_int(Get(time_elem, "startsecond"))))

\* The end of the run of digits that starts at i
RECURSIVE RunEnd(_, _)
RunEnd(s, i) ==
    IF i < Len(s) /\ IsDigit(s[i + 1]) THEN RunEnd(s, i + 1) ELSE i

\* re.findall(r"\b\d+\b", s): the starts of the runs of digits with a word
\* boundary on both sides
NumberStarts(s) ==
    {i \in DOMAIN s :
        /\ IsDigit(s[i])
        /\ (i = 1 \/ ~IsWord(s[i - 1]))
        /\ (RunEnd(s, i) = Len(s) \/ ~IsWord(s[RunEnd(s, i) + 1]))}

RECURSIVE SumNumbers(_, _)
SumNumbers(s, starts) ==
    IF starts = {} THEN 0
    ELSE LET i == CHOOSE j \in starts : TRUE
         IN  DigitsToInt(SubSeq(s, i, RunEnd(s, i))) + SumNumbers(s, starts \ {i})

\* re.search(r"[^\d]+$", s): the run of non-digits the text ends with; empty
\* when there is no match (the text is empty or ends with a digit)
RECURSIVE TrailingNonDigits(_)
TrailingNonDigits(s) ==
    IF s = <<>> \/ IsDigit(s[Len(s)]) THEN <<>>
    ELSE Append(TrailingNonDigits(SubSeq(s, 1, Len(s) - 1)), s[Len(s)])

\* None, or the pair <<value, comment>> with comment None when nothing is left
\* of it after the strip
parse_value_and_comment(item_text) ==
    With(Raw(item_text), LAMBDA s :
    With(NumberStarts(s), LAMBDA numbers :
        LET value == SumNumbers(s, numbers)
            comment_match == TrailingNonDigits(s)
            comment == IF comment_match # <<>>
                       THEN Some(Strip(comment_match, {" ", "(", ")"}))
                       ELSE None
        IN  IF numbers = {} THEN None
            ELSE Some(<<value, IF comment = None \/ comment[1] = <<>> THEN None ELSE comment>>)))

-----------------------------------------------------------------------------
(* The texts of the model *)

TextX == <<"x">>
Text5 == <<"5">>
Text3Gym == <<"3"," ","(","g","y","m",")">>
TextSum == <<"1","2"," ","+"," ","8"," ","(","a","p","p","r","o","x",","," ","r","o","u","n","d","e","d",")">>
TextRent == <<"#","m","i","c","r","o","s","t","u","f","f"," ","r","e","n","t">>
TextRent2 == <<"R","e","n","t"," ","#","M","i","c","r","o","s","t","u","f","f">>
TextGym == <<"g","y","m"," ","#","m","i","c","r","o","s","t","u","f","f">>
TextT1 == <<"T1">>
TextT2 == <<"T2">>

\* the texts of the nodes flatten_tree is applied to
FlatTexts == {TextX, TextRent}
\* the texts of the items below a tagged root
SubTexts == {TextX, Text5, Text3Gym, TextT1, TextT2}
\* the texts of the numeric items of the documents update() runs on
UpdateTexts == {TextT1, Text5, Text3Gym, TextSum}
\* the texts of the tagged roots
RootTexts == {TextRent, TextRent2, TextGym}

Texts == FlatTexts \cup SubTexts \cup RootTexts \cup UpdateTexts

\* The three parsers are pure: each is applied once to every text of the
\* model, and the calls below read the result
find_tags_of == [text \in Texts |-> find_tags(text)]
parse_datetime_of == [text \in Texts |-> parse_datetime(text)]
parse_value_and_comment_of == [text \in Texts |-> parse_value_and_comment(text)]

-----------------------------------------------------------------------------
(* The raw tree and flatten_tree *)

\* The snapshot's rootProjectChildren as a sequence of Nodes in document
\* order (a node before its children, the children in their order): data[i]
\* is [id, nm, par], par the position of its parent node, 0 for a node of
\* rootProjectChildren.  node.ch is the sequence ChildrenOf(data, i).
RECURSIVE NodesWithParent(_, _, _)
NodesWithParent(data, p, i) ==
    IF i > Len(data) THEN <<>>
    ELSE (IF data[i].par = p THEN <<i>> ELSE <<>>) \o NodesWithParent(data, p, i + 1)

ChildrenOf(data, i) == NodesWithParent(data, i, 1)

\* A dict keeps its keys in insertion order: keys is that order, at the
\* mapping
EmptyDict == [keys |-> <<>>, at |-> <<>>]
DictSet(d, key, value) ==
    [keys |-> IF key \in DOMAIN d.at THEN d.keys ELSE Append(d.keys, key),
     at |-> [x \in DOMAIN d.at \cup {key} |-> IF x = key THEN value ELSE d.at[x]]]

\* dict.values()
Values(d) == [i \in DOMAIN d.keys |-> d.at[d.keys[i]]]

\* A WorkflowyItem: ref_id, text, tags, parents, children.  parents and
\* children hold references to items, written as their ref_id.  (notes and
\* the three timestamps are read by nothing below and are left out.)
\* parent is None or Some(item).
convert_node(node, parent) ==
    [ref_id |-> node.id,
     text |-> node.nm,
     tags |-> find_tags_of[node.nm],
     parents |-> IF parent # None
                 THEN Append(parent[1].parents, parent[1].ref_id)
                 ELSE <<>>,
     children |-> <<>>]

\* `assert item.ref_id not in items`
AssertNotIn_NoCheck(ref_id, items) == TRUE
AssertNotIn(ref_id, items) == ref_id \notin DOMAIN items.at

\* add_children(nodes, items, parent, time_joined_s): nodes are positions in
\* data, items the dict it adds to.  Gives the dict as it leaves it and the
\* list of converted items (their ref_ids), or the AssertionError.

\* item.children = <the list add_children returned>: the item is the one the
\* dict holds under ref_id
SetChildren_Forgotten(items, ref_id, converted) == items
SetChildren(items, ref_id, converted) ==
    DictSet(items, ref_id, [items.at[ref_id] EXCEPT !.children = converted])

RECURSIVE add_children(_, _, _, _)
add_children(data, nodes, items, parent) ==
    IF nodes = <<>> THEN [exc |-> "", items |-> items, converted |-> <<>>]
    ELSE With(convert_node(data[nodes[1]], parent), LAMBDA item :
      IF ~AssertNotIn(item.ref_id, items)
      THEN [exc |-> "AssertionError", items |-> items, converted |-> <<>>]
      ELSE
        \* items[item.ref_id] = item
        \* if node.ch: item.children = add_children(node.ch, ...)
        With(IF ChildrenOf(data, nodes[1]) # <<>>
             THEN add_children(data, ChildrenOf(data, nodes[1]),
                               DictSet(items, item.ref_id, item), Some(item))
             ELSE [exc |-> "", items |-> DictSet(items, item.ref_id, item),
                   converted |-> <<>>],
             LAMBDA sub :
          IF sub.exc # "" THEN sub
          ELSE With(add_children(data, Tail(nodes),
                                 IF ChildrenOf(data, nodes[1]) # <<>>
                                 THEN SetChildren(sub.items, item.ref_id, sub.converted)
                                 ELSE sub.items,
                                 parent),
                    LAMBDA rest :
                 IF rest.exc # "" THEN rest
                 ELSE [exc |-> "", items |-> rest.items,
                       converted |-> <<item.ref_id>> \o rest.converted])))

\* flatten_tree(data): the dict, or the exception; the dict under
\* construction is local to the call and lost when it raises
flatten_tree(data) ==
    LET r == add_children(data, NodesWithParent(data, 0, 1), EmptyDict, None)
    IN  IF r.exc # "" THEN Raise(r.exc, EmptyDict) ELSE Return(r.items)

-----------------------------------------------------------------------------
(* find_microstuff_roots and extract_microstuff *)

\* [item for item in items.values() if MICROSTUFF_TAG_NAME in item.tags]
find_microstuff_roots_Reversed(items) ==
    LET tagged == SelectSeq(Values(items), LAMBDA item : MICROSTUFF_TAG_NAME \in item.tags)
    IN  [i \in DOMAIN tagged |-> tagged[Len(tagged) + 1 - i].ref_id]

find_microstuff_roots(items) ==
    LET tagged == SelectSeq(Values(items), LAMBDA item : MICROSTUFF_TAG_NAME \in item.tags)
    IN  [i \in DOMAIN tagged |-> tagged[i].ref_id]

\* list.pop(): the item popped and the list left
PopFifo(stack) == [item |-> stack[1], rest |-> Tail(stack)]
Pop(stack) == [item |-> stack[Len(stack)], rest |-> SubSeq(stack, 1, Len(stack) - 1)]

Microstuff(time, value, comment) == [time |-> time, value |-> value, comment |-> comment]

\* The locals of extract_microstuff between two iterations of its loops, and
\* how the call stands: "run", "return", or "raise" with the exception
ExtractStart(items, root_item) ==
    [pc |-> "run", exc |-> "",
     microstuffs |-> <<>>,
     root_descendants |-> items.at[root_item].children,
     date_ |-> None,
     date_descendants |-> <<>>]

\* One iteration of `while len(root_descendants)`, up to the inner loop
outer_iteration_GoesDeeper(items, f) ==
    LET popped == Pop(f.root_descendants)
        item == items.at[popped.item]
        date_ == parse_datetime_of[item.text]
    IN  IF date_.exc # ""
        THEN [f EXCEPT !.pc = "raise", !.exc = date_.exc, !.root_descendants = popped.rest]
        ELSE IF date_.val = None
        THEN [f EXCEPT !.root_descendants = popped.rest \o item.children]
        ELSE [f EXCEPT !.root_descendants = popped.rest \o item.children,
                       !.date_ = date_.val,
                       !.date_descendants = item.children]

outer_iteration(items, f) ==
    LET popped == Pop(f.root_descendants)
        item == items.at[popped.item]
        date_ == parse_datetime_of[item.text]
    IN  IF date_.exc # ""
        THEN [f EXCEPT !.pc = "raise", !.exc = date_.exc, !.root_descendants = popped.rest]
        ELSE IF date_.val = None
        \* go deeper if that item does not contain a date
        THEN [f EXCEPT !.root_descendants = popped.rest \o item.children]
        ELSE [f EXCEPT !.root_descendants = popped.rest,
                       !.date_ = date_.val,
                       !.date_descendants = item.children]

\* One iteration of `while len(date_descendants)`
inner_iteration_ChildrenOnly(items, f) ==
    LET popped == Pop(f.date_descendants)
        descendant == items.at[popped.item]
        result == parse_value_and_comment_of[descendant.text]
    IN  [f EXCEPT !.date_descendants = popped.rest,
                  !.microstuffs =
                      IF result = None THEN @
                      ELSE Append(@, Microstuff(f.date_[1], result[1][1], result[1][2]))]

inner_iteration(items, f) ==
    LET popped == Pop(f.date_descendants)
        descendant == items.at[popped.item]
        result == parse_value_and_comment_of[descendant.text]
    IN  [f EXCEPT !.date_descendants = popped.rest \o descendant.children,
                  !.microstuffs =
                      IF result = None THEN @
                      ELSE Append(@, Microstuff(f.date_[1], result[1][1], result[1][2]))]

\* The next iteration: the inner loop runs until its stack is empty, then the
\* outer loop goes on, and the call returns when that stack is empty too
ExtractStep(items, f) ==
    IF f.date_descendants # <<>> THEN inner_iteration(items, f)
    ELSE IF f.root_descendants # <<>> THEN outer_iteration(items, f)
    ELSE [f EXCEPT !.pc = "return"]

RECURSIVE ExtractLoop(_, _)
ExtractLoop(items, f) ==
    IF f.pc # "run" THEN f ELSE ExtractLoop(items, ExtractStep(items, f))

\* extract_microstuff(root_item): the list returned, or the exception
extract_microstuff(items, root_item) ==
    LET f == ExtractLoop(items, ExtractStart(items, root_item))
    IN  IF f.pc = "raise" THEN Raise(f.exc, <<>>) ELSE Return(f.microstuffs)

-----------------------------------------------------------------------------
(* Storage: the table "microstuff" behind db_engine *)

\* A table is the bag of its rows [time, name, value, comment].  db is the
\* database as update() meets it: table is what is committed (what any
\* reader sees), txn the table as the open transaction sees it, None when
\* no transaction is open.
RECURSIVE SeqToBag(_)
SeqToBag(rows) ==
    IF rows = <<>> THEN EmptyBag ELSE SetToBag({rows[1]}) (+) SeqToBag(Tail(rows))

\* what DELETE ... WHERE name = :name leaves
DeleteRows_All(bag, name) == EmptyBag
DeleteRows(bag, name) ==
    [r \in {x \in DOMAIN bag : x.name # name} |-> bag[r]]

\* with db_engine.begin() as conn:
begin(db) == [db EXCEPT !.txn = Some(db.table)]

\* conn.execute(sa.delete(table).where(table.c.name == metric_name))
execute_delete_Nothing(db, metric_name) == db
execute_delete_Autocommit(db, metric_name) ==
    [table |-> DeleteRows(db.table, metric_name),
     txn |-> Some(DeleteRows(db.txn[1], metric_name))]
execute_delete(db, metric_name) ==
    [db EXCEPT !.txn = Some(DeleteRows(db.txn[1], metric_name))]

\* conn.execute(sa.insert(table), rows)
execute_insert_Nothing(db, rows) == db
execute_insert(db, rows) ==
    [db EXCEPT !.txn = Some(db.txn[1] (+) SeqToBag(rows))]

\* leaving the `with` block: commit
commit(db) == [table |-> db.txn[1], txn |-> None]

\* leaving the `with` block by an exception: rollback
rollback(db) == [db EXCEPT !.txn = None]

\* root_item.text.lower().replace(f"#{MICROSTUFF_TAG_NAME}", "").strip()
metric_name_of(text) ==
    Strip(Replace(Lower(Raw(text)), <<"#">> \o MICROSTUFF_TAG_NAME, <<>>), {" "})

\* [{"time": ms.time, "name": metric_name, "value": ms.value, "comment": ms.comment} for ms in microstuff]
rows_of(microstuff, metric_name) ==
    [i \in DOMAIN microstuff |->
        [time |-> microstuff[i].time, name |-> metric_name,
         value |-> microstuff[i].value, comment |-> microstuff[i].comment]]

-----------------------------------------------------------------------------
(* Inputs *)

\* The positions of a node and its ancestors in a parent sequence
RECURSIVE Chain(_, _)
Chain(par, j) == IF j = 0 THEN {} ELSE {j} \cup Chain(par, par[j])

\* The parent sequences of the forests of n nodes in document order: a node
\* hangs under the node before it, under one of that node's ancestors, or
\* (top) at the top level
RECURSIVE Shapes(_, _)
Shapes(n, top) ==
    IF n = 0 THEN {<<>>}
    ELSE IF n = 1 THEN {<<0>>}
    ELSE UNION {{Append(par, q) : q \in Chain(par, n - 1) \cup (IF top THEN {0} ELSE {})} :
                   par \in Shapes(n - 1, top)}

MakeData(par, id, nm) == [i \in DOMAIN par |-> [id |-> id[i], nm |-> nm[i], par |-> par[i]]]

\* flatten_tree: forests of up to MaxFlatNodes nodes, identifiers that may
\* repeat
IsFlattenInput(d) ==
    \E n \in 0..MaxFlatNodes :
        \E par \in Shapes(n, TRUE), id \in [1..n -> 1..NumIds], nm \in [1..n -> FlatTexts] :
            d = MakeData(par, id, nm)

\* extract_microstuff: a tagged root (node 1) over up to MaxSubNodes items
IsExtractInput(d) ==
    \E n \in 1..(MaxSubNodes + 1) :
        \E par \in Shapes(n, FALSE), nm \in [2..n -> SubTexts] :
            d = MakeData(par, [i \in 1..n |-> i],
                         [i \in 1..n |-> IF i = 1 THEN TextRent ELSE nm[i]])

\* update(): a document of up to MaxRoots tagged items at the top level, each
\* over one date item (Jan 1 2023) that holds 0..MaxLeaves numeric items: the
\* e-th tagged item those of LeafTexts from its e-th on
LeafTexts == <<Text5, Text3Gym, TextSum>>
LeafAt(e, j) == LeafTexts[((e + j - 2) % Len(LeafTexts)) + 1]

\* the nodes of the e-th tagged item, the first of them at position first
EntryNodes(first, e, root_text, leaves) ==
    <<[nm |-> root_text, par |-> 0], [nm |-> TextT1, par |-> first]>>
    \o [j \in 1..leaves |-> [nm |-> LeafAt(e, j), par |-> first + 1]]

RECURSIVE EntriesNodes(_, _, _)
EntriesNodes(first, e, entries) ==
    IF e > Len(entries) THEN <<>>
    ELSE EntryNodes(first, e, entries[e].root, entries[e].leaves)
         \o EntriesNodes(first + 2 + entries[e].leaves, e + 1, entries)

\* identifiers: the position of the node, or with dup = <<1, j>> node j
\* carrying the identifier of node 1 (its child, or the last node)
WithIds(nodes, dup) ==
    [i \in DOMAIN nodes |->
        [id |-> IF dup # <<>> /\ i = dup[2] THEN dup[1] ELSE i,
         nm |-> nodes[i].nm, par |-> nodes[i].par]]

IsUpdateInput(d) ==
    \E n \in 1..MaxRoots :
        \E entries \in [1..n -> [root : RootTexts, leaves : 0..MaxLeaves]] :
            LET nodes == EntriesNodes(1, 1, entries)
            IN  \E dup \in {<<>>, <<1, 2>>, <<1, Len(nodes)>>} :
                    d = WithIds(nodes, dup)

\* what the table may hold before the first run
Jan1 == <<2023, 1, 1, 0, 0, 0>>
Dec31 == <<2022, 12, 31, 0, 0, 0>>
OldRows ==
    {[time |-> Dec31, name |-> <<"r","e","n","t">>, value |-> 7, comment |-> None],
     [time |-> Dec31, name |-> <<"g","y","m">>, value |-> 1, comment |-> Some(<<"o","l","d">>)],
     [time |-> Jan1, name |-> <<"m","i","s","c">>, value |-> 5, comment |-> None]}
InitialTables == {EmptyBag, SetToBag(OldRows)}

-----------------------------------------------------------------------------
(* State *)

VARIABLES
    data,        \* the snapshot of the document: the raw tree
    items,       \* None, or what flatten_tree(data) gave
    frame,       \* the locals of the running extract_microstuff call
    trace,       \* for each Microstuff of frame.microstuffs, the item it came from
    db,          \* the database
    pc,          \* where update() stands
    run,         \* the number of the run of update()
    roots,       \* find_microstuff_roots(items)
    k,           \* the position in roots of the loop of update()
    microstuff,  \* the locals of the loop body
    metric_name,
    rows,
    cause,       \* what raised, when update() ended by an exception
    failed_at,   \* where update() stood when it raised
    pre,         \* the table as committed when the loop body was entered
    attempted,   \* the positions in roots whose transaction was begun in this run
    prev,        \* the table as the previous run left it, if that run returned
    parse_arg,   \* the text parse_datetime is called with
    parse_ret    \* None, or what parse_datetime(parse_arg) gave

extractVars == <<frame, trace>>
parseVars == <<parse_arg, parse_ret>>
updateVars == <<db, pc, run, roots, k, microstuff, metric_name, rows, cause, failed_at, pre,
               attempted, prev>>
vars == <<data, items, frame, trace, db, pc, run, roots, k, microstuff, metric_name, rows,
          cause, failed_at, pre, attempted, prev, parse_arg, parse_ret>>

NoFrame == [pc |-> "none", exc |-> "", microstuffs |-> <<>>, root_descendants |-> <<>>,
            date_ |-> None, date_descendants |-> <<>>]

\* parse_datetime is not called on its own
NoParse == parse_arg = <<>> /\ parse_ret = None

\* update() is not running
NoUpdate ==
    /\ db = [table |-> EmptyBag, txn |-> None]
    /\ pc = "none"
    /\ run = 0
    /\ roots = <<>>
    /\ k = 0
    /\ microstuff = <<>>
    /\ metric_name = <<>>
    /\ rows = <<>>
    /\ cause = ""
    /\ failed_at = ""
    /\ pre = EmptyBag
    /\ attempted = {}
    /\ prev = None

-----------------------------------------------------------------------------
(* flatten_tree applied to a raw tree *)

InitFlatten ==
    /\ IsFlattenInput(data)
    /\ items = None
    /\ frame = NoFrame
    /\ trace = <<>>
    /\ NoParse
    /\ NoUpdate

Flatten ==
    /\ items = None
    /\ items' = Some(flatten_tree(data))
    /\ UNCHANGED <<data, frame, trace, parseVars, updateVars>>

NextFlatten == Flatten

SpecFlatten == InitFlatten /\ [][NextFlatten]_vars

-----------------------------------------------------------------------------
(* extract_microstuff applied to a tagged root, one loop iteration a step *)

InitExtract ==
    /\ IsExtractInput(data)
    /\ items = Some(flatten_tree(data))
    /\ frame = ExtractStart(items[1].val, 1)
    /\ trace = <<>>
    /\ NoParse
    /\ NoUpdate

OuterIteration ==
    /\ frame.pc = "run"
    /\ frame.date_descendants = <<>>
    /\ frame.root_descendants # <<>>
    /\ frame' = ExtractStep(items[1].val, frame)
    /\ UNCHANGED <<data, items, trace, parseVars, updateVars>>

InnerIteration ==
    /\ frame.pc = "run"
    /\ frame.date_descendants # <<>>
    /\ frame' = ExtractStep(items[1].val, frame)
    /\ trace' = IF Len(frame'.microstuffs) > Len(frame.microstuffs)
                THEN Append(trace, Pop(frame.date_descendants).item)
                ELSE trace
    /\ UNCHANGED <<data, items, parseVars, updateVars>>

ExtractReturn ==
    /\ frame.pc = "run"
    /\ frame.date_descendants = <<>>
    /\ frame.root_descendants = <<>>
    /\ frame' = ExtractStep(items[1].val, frame)
    /\ UNCHANGED <<data, items, trace, parseVars, updateVars>>

NextExtract == OuterIteration \/ InnerIteration \/ ExtractReturn

SpecExtract == InitExtract /\ [][NextExtract]_vars

-----------------------------------------------------------------------------
(* parse_datetime applied to a text *)

\* texts of up to MaxTextLen tokens: plain characters and <time> elements
\* without a time of day (T1), with one (T3), with an hour that is no integer
\* (T4) and with an empty second (T5)
ParseTokens == {"x", "5", "T1", "T3", "T4", "T5"}
IsParseInput(text) == \E n \in 0..MaxTextLen : text \in [1..n -> ParseTokens]

InitParse ==
    /\ data = <<>>
    /\ items = None
    /\ frame = NoFrame
    /\ trace = <<>>
    /\ IsParseInput(parse_arg)
    /\ parse_ret = None
    /\ NoUpdate

\* date_ = parse_datetime(item.text)
ParseDatetime ==
    /\ parse_ret = None
    /\ parse_ret' = Some(parse_datetime(parse_arg))
    /\ UNCHANGED <<data, items, extractVars, parse_arg, updateVars>>

NextParse == ParseDatetime

SpecParse == InitParse /\ [][NextParse]_vars

-----------------------------------------------------------------------------
(* update(): the runs of the scheduled job on one snapshot *)

Init ==
    /\ IsUpdateInput(data)
    /\ items = None
    /\ frame = NoFrame
    /\ trace = <<>>
    /\ \E t \in InitialTables : db = [table |-> t, txn |-> None] /\ pre = t
    /\ pc = "start"
    /\ run = 1
    /\ roots = <<>>
    /\ k = 0
    /\ microstuff = <<>>
    /\ metric_name = <<>>
    /\ rows = <<>>
    /\ cause = ""
    /\ failed_at = ""
    /\ attempted = {}
    /\ prev = None
    /\ NoParse

\* update() ends by the exception e
Raised(e) ==
    /\ pc' = "raised"
    /\ cause' = e
    /\ failed_at' = pc

\* items = get_worklfowy_items(): the request is answered and the tree
\* flattened; an AssertionError of flatten_tree leaves update()
GetItems ==
    /\ pc = "start"
    /\ LET r == flatten_tree(data)
       IN  /\ items' = Some(r)
           /\ IF r.exc # ""
              THEN /\ Raised(r.exc)
                   /\ UNCHANGED <<roots, k>>
              ELSE /\ roots' = find_microstuff_roots(r.val)
                   /\ k' = 1
                   /\ pc' = "loop"
                   /\ UNCHANGED <<cause, failed_at>>
    /\ UNCHANGED <<data, extractVars, parseVars, db, run, microstuff, metric_name, rows, pre, attempted, prev>>

\* requests_get or raise_for_status raises
GetItemsFails ==
    /\ pc = "start"
    /\ Raised("RequestException")
    /\ UNCHANGED <<data, items, extractVars, parseVars, db, run, roots, k, microstuff, metric_name, rows,
                   pre, attempted, prev>>

\* The loop body up to the `with`: microstuff, metric_name and rows of the
\* next root
LoopBody ==
    /\ pc = "loop"
    /\ k <= Len(roots)
    /\ LET root_item == items[1].val.at[roots[k]]
           r == extract_microstuff(items[1].val, roots[k])
       IN  IF r.exc # ""
           THEN /\ Raised(r.exc)
                /\ UNCHANGED <<microstuff, metric_name, rows, pre>>
           ELSE /\ microstuff' = r.val
                /\ metric_name' = metric_name_of(root_item.text)
                /\ rows' = rows_of(r.val, metric_name_of(root_item.text))
                /\ pre' = db.table
                /\ pc' = "begin"
                /\ UNCHANGED <<cause, failed_at>>
    /\ UNCHANGED <<data, items, extractVars, parseVars, db, run, roots, k, attempted, prev>>

Begin ==
    /\ pc = "begin"
    /\ db' = begin(db)
    /\ attempted' = attempted \cup {k}
    /\ pc' = "delete"
    /\ UNCHANGED <<data, items, extractVars, parseVars, run, roots, k, microstuff, metric_name, rows,
                   cause, failed_at, pre, prev>>

Delete ==
    /\ pc = "delete"
    /\ db' = execute_delete(db, metric_name)
    /\ pc' = "insert"
    /\ UNCHANGED <<data, items, extractVars, parseVars, run, roots, k, microstuff, metric_name, rows,
                   cause, failed_at, pre, attempted, prev>>

\* An empty rows is passed as it is; what the statement then does is the
\* library's and the database's (no row inserted, or the statement
\* rejected): the first is this step, the second StatementFails
Insert ==
    /\ pc = "insert"
    /\ db' = execute_insert(db, rows)
    /\ pc' = "commit"
    /\ UNCHANGED <<data, items, extractVars, parseVars, run, roots, k, microstuff, metric_name, rows,
                   cause, failed_at, pre, attempted, prev>>

\* The `with` block is left: the transaction commits and the loop goes on
Commit ==
    /\ pc = "commit"
    /\ db' = commit(db)
    /\ k' = k + 1
    /\ pc' = "loop"
    /\ UNCHANGED <<data, items, extractVars, parseVars, run, roots, microstuff, metric_name, rows,
                   cause, failed_at, pre, attempted, prev>>

\* The connection, a statement or the commit raises: the `with` block rolls
\* back and the exception leaves update(), which catches nothing
StatementFails ==
    /\ pc \in {"begin", "delete", "insert", "commit"}
    /\ db' = rollback(db)
    /\ attempted' = attempted \cup {k}
    /\ Raised("DBAPIError")
    /\ UNCHANGED <<data, items, extractVars, parseVars, run, roots, k, microstuff, metric_name, rows,
                   pre, prev>>

\* The loop is over
UpdateReturns ==
    /\ pc = "loop"
    /\ k > Len(roots)
    /\ pc' = "done"
    /\ UNCHANGED <<data, items, extractVars, parseVars, db, run, roots, k, microstuff, metric_name, rows,
                   cause, failed_at, pre, attempted, prev>>

\* The scheduler starts the job again, on the same snapshot
NextRun ==
    /\ pc \in {"done", "raised"}
    /\ run < MaxRuns
    /\ run' = run + 1
    /\ prev' = IF pc = "done" THEN Some(db.table) ELSE None
    /\ pc' = "start"
    /\ items' = None
    /\ roots' = <<>>
    /\ k' = 0
    /\ microstuff' = <<>>
    /\ metric_name' = <<>>
    /\ rows' = <<>>
    /\ cause' = ""
    /\ failed_at' = ""
    /\ pre' = db.table
    /\ attempted' = {}
    /\ UNCHANGED <<data, extractVars, parseVars, db>>

Next ==
    \/ GetItems
    \/ GetItemsFails
    \/ LoopBody
    \/ Begin
    \/ Delete
    \/ Insert
    \/ Commit
    \/ StatementFails
    \/ UpdateReturns
    \/ NextRun

Spec == Init /\ [][Next]_vars

-----------------------------------------------------------------------------
(* Properties of update() and the storage, checked under Spec *)

\* the rows of a table stored under a name, and those stored under the others
RowsUnder(bag, name) == [r \in {x \in DOMAIN bag : x.name = name} |-> bag[r]]
RowsNotUnder(bag, name) == [r \in {x \in DOMAIN bag : x.name # name} |-> bag[r]]

\* the observations of a list as rows of a metric: each as often as it is listed
RECURSIVE ObservationRows(_, _)
ObservationRows(L, name) ==
    IF L = <<>> THEN EmptyBag
    ELSE SetToBag({[time |-> L[1].time, name |-> name,
                    value |-> L[1].value, comment |-> L[1].comment]})
         (+) ObservationRows(Tail(L), name)

\* the transaction of the loop body has committed, and the next has not begun
Replaced == pc \in {"loop", "done"} /\ k > 1
\* the transaction of the loop body is open
InTransaction == pc \in {"delete", "insert", "commit"}
\* the replacement of the loop body failed
ReplacementFailed == pc = "raised" /\ failed_at \in {"begin", "delete", "insert", "commit"}

\* C1: once the replacement for a metric name has committed, the rows stored
\* under that name are exactly the rows of the freshly extracted list, each as
\* often as the list holds it (the empty list included): none of the rows
\* stored under the name before is left
C1_ReplacedByFreshList ==
    Replaced => RowsUnder(db.table, metric_name) = ObservationRows(microstuff, metric_name)

\* C1 witness: a non-empty list has replaced other rows stored under the name
C1_Witness ==
    /\ Replaced
    /\ microstuff # <<>>
    /\ RowsUnder(pre, metric_name) # EmptyBag
    /\ RowsUnder(pre, metric_name) # RowsUnder(db.table, metric_name)

\* C2: the delete and the insert of one metric name are one atomic unit: while
\* the transaction is open the committed table (what a reader sees) still
\* holds the rows stored under the name before, and when the replacement fails
\* at any point they are what is stored and no transaction stays open
C2_AtomicReplacement ==
    /\ InTransaction => RowsUnder(db.table, metric_name) = RowsUnder(pre, metric_name)
    /\ ReplacementFailed =>
          /\ RowsUnder(db.table, metric_name) = RowsUnder(pre, metric_name)
          /\ db.txn = None

\* C2 witness: the replacement failed after the delete, with rows stored under
\* the name before and a non-empty list to insert
C2_Witness ==
    /\ ReplacementFailed
    /\ failed_at \in {"insert", "commit"}
    /\ RowsUnder(pre, metric_name) # EmptyBag
    /\ rows # <<>>

\* C3: a failure of the replacement of one metric name does not abort the run:
\* when the run has ended, the replacement of every root found was attempted
C3_FailureDoesNotAbortRun ==
    (pc \in {"done", "raised"} /\ (pc = "raised" => ReplacementFailed))
        => attempted = DOMAIN roots

\* C4: the replacement of a metric name leaves the rows stored under every
\* other name as they were, in the open transaction, after its commit and
\* after its failure
C4_OtherNamesUntouched ==
    /\ (InTransaction \/ Replaced \/ ReplacementFailed) =>
          RowsNotUnder(db.table, metric_name) = RowsNotUnder(pre, metric_name)
    /\ InTransaction =>
          RowsNotUnder(db.txn[1], metric_name) = RowsNotUnder(pre, metric_name)

\* C4 witness: a replacement committed that changed the rows of its name while
\* rows were stored under other names
C4_Witness ==
    /\ Replaced
    /\ RowsNotUnder(pre, metric_name) # EmptyBag
    /\ RowsUnder(pre, metric_name) # RowsUnder(db.table, metric_name)

\* C5: a run that returns after a run that returned, on the same snapshot,
\* leaves the table as that run left it
C5_SecondRunSameState ==
    (pc = "done" /\ prev # None) => db.table = prev[1]

\* C5 witness: the second of two runs returned, having replaced a metric by a
\* non-empty list
C5_Witness ==
    /\ pc = "done"
    /\ prev # None
    /\ \E r \in DOMAIN db.table : r.time = Jan1 /\ r.name = <<"r","e","n","t">>

\* two nodes of the raw tree carry the same identifier
HasDuplicateId(d) == \E i, j \in DOMAIN d : i < j /\ d[i].id = d[j].id
\* the position of the first node whose identifier an earlier node carries
SecondOccurrence(d) ==
    CHOOSE j \in DOMAIN d :
        /\ \E i \in 1..(j - 1) : d[i].id = d[j].id
        /\ \A q \in 1..(j - 1) : \A i \in 1..(q - 1) : d[i].id # d[q].id

\* C6: on a raw tree with a repeated identifier flatten_tree raises at the
\* second occurrence (the nodes before it, and no other, are in the dict by
\* then) and returns no mapping; update() ends there: no root is looked for,
\* no replacement is begun and the table is as the run found it
C6_DuplicateIdAborts ==
    (HasDuplicateId(data) /\ items # None) =>
        /\ items[1].exc = "AssertionError"
        /\ items[1].val = EmptyDict
        /\ add_children(data, NodesWithParent(data, 0, 1), EmptyDict, None).items.keys
              = [i \in 1..(SecondOccurrence(data) - 1) |-> data[i].id]
        /\ pc = "raised"
        /\ roots = <<>>
        /\ attempted = {}
        /\ db = [table |-> pre, txn |-> None]

\* C6 witness: a run ended on a document with a repeated identifier
C6_Witness ==
    /\ HasDuplicateId(data)
    /\ items # None
    /\ pc = "raised"
    /\ SecondOccurrence(data) > 2

-----------------------------------------------------------------------------
(* Properties of flatten_tree, checked under SpecFlatten *)

\* the identifiers of the children of node i of the raw tree, in source order
ChildIds(d, i) == [j \in DOMAIN ChildrenOf(d, i) |-> d[ChildrenOf(d, i)[j]].id]

\* C7: for a raw tree whose identifiers are pairwise distinct flatten_tree
\* returns a mapping with exactly one entry per node, at any depth and with or
\* without children: its keys are the identifiers of the nodes, each once,
\* the entry of a node is the item of that node, and the children of the item
\* are the items of the node's children in source order
C7_OneEntryPerNode ==
    (items # None /\ ~HasDuplicateId(data)) =>
        /\ items[1].exc = ""
        /\ DOMAIN items[1].val.at = {data[i].id : i \in DOMAIN data}
        /\ Len(items[1].val.keys) = Len(data)
        /\ {items[1].val.keys[q] : q \in DOMAIN items[1].val.keys} = DOMAIN items[1].val.at
        /\ \A i \in DOMAIN data :
              /\ items[1].val.at[data[i].id].ref_id = data[i].id
              /\ items[1].val.at[data[i].id].text = data[i].nm
              /\ items[1].val.at[data[i].id].children = ChildIds(data, i)

\* C7 witness: a tree with distinct identifiers was flattened in which a node
\* has two children and a node has none
C7_Witness ==
    /\ items # None
    /\ ~HasDuplicateId(data)
    /\ \E i \in DOMAIN data : Len(ChildrenOf(data, i)) >= 2
    /\ \E i \in DOMAIN data : ChildrenOf(data, i) = <<>>

-----------------------------------------------------------------------------
(* Properties of extract_microstuff, checked under SpecExtract: the tagged
   root is node 1 and every node's identifier is its position *)

\* the proper ancestors of node i below the root
AncestorsBelowRoot(i) == Chain([j \in DOMAIN data |-> data[j].par], data[i].par) \ {1}
\* the text of node i parses as a date
IsDate(i) == parse_datetime_of[data[i].nm].val # None
DateOf(i) == parse_datetime_of[data[i].nm].val[1]
DateAncestors(i) == {a \in AncestorsBelowRoot(i) : IsDate(a)}
\* the outermost date anchors: date items below the root under no date item
Anchors == {a \in DOMAIN data \ {1} : IsDate(a) /\ DateAncestors(a) = {}}
\* the outermost anchor item i lies under
AnchorOf(i) == CHOOSE a \in DateAncestors(i) : DateAncestors(a) = {}
\* the text of node i holds a numeric token
HasNumericToken(i) == NumberStarts(Raw(data[i].nm)) # {}
\* the proper descendants of outermost anchors that hold a numeric token
Emittable == {i \in DOMAIN data \ {1} : DateAncestors(i) # {} /\ HasNumericToken(i)}

\* C8: the children of a date anchor are never pushed onto the outer stack
\* (no item on it lies under a date item), and every Observation carries the
\* instant of the outermost anchor above the item it came from, also when a
\* nested date item lies between them
C8_OutermostAnchorOnly ==
    /\ \A q \in DOMAIN frame.root_descendants :
          DateAncestors(frame.root_descendants[q]) = {}
    /\ Len(trace) = Len(frame.microstuffs)
    /\ \A m \in DOMAIN trace :
          /\ DateAncestors(trace[m]) # {}
          /\ frame.microstuffs[m].time = DateOf(AnchorOf(trace[m]))

\* C8 witness: an Observation came from an item beneath a nested date item
\* of another date than the outermost anchor's
C8_Witness ==
    \E m \in DOMAIN trace :
        \E a \in DateAncestors(trace[m]) :
            /\ DateAncestors(a) # {}
            /\ DateOf(a) # DateOf(AnchorOf(trace[m]))
            /\ ~IsDate(trace[m])

\* C9: when extract_microstuff returns, it has emitted one Observation for
\* each proper descendant of an outermost anchor whose text holds a numeric
\* token, and no other: none for an anchor, none for an item outside the
\* anchors' subtrees
C9_OnePerNumericDescendant ==
    frame.pc = "return" =>
        /\ Len(frame.microstuffs) = Len(trace)
        /\ \A m, q \in DOMAIN trace : m # q => trace[m] # trace[q]
        /\ {trace[m] : m \in DOMAIN trace} = Emittable
        /\ \A m \in DOMAIN trace : trace[m] \notin Anchors

\* C9 witness: the call returned with an Observation from a numeric item
\* under an anchor that has digits in its text, and with a numeric item
\* outside the anchors' subtrees
C9_Witness ==
    /\ frame.pc = "return"
    /\ \E m \in DOMAIN trace : HasNumericToken(AnchorOf(trace[m]))
    /\ \E i \in DOMAIN data \ {1} : HasNumericToken(i) /\ ~IsDate(i) /\ DateAncestors(i) = {}

\* the nodes of the subtree of node i, a node before its children and the
\* children last first
RECURSIVE RevPreorderAll(_, _)
RevPreorder(i) == <<i>> \o RevPreorderAll(ChildrenOf(data, i), Len(ChildrenOf(data, i)))
RevPreorderAll(nodes, n) ==
    IF n = 0 THEN <<>> ELSE RevPreorder(nodes[n]) \o RevPreorderAll(nodes, n - 1)

\* the scenario: a tagged root, its child of Jan 1 2023, and that child's
\* children "5" and "3 (gym)"
ScenarioData ==
    MakeData(<<0, 1, 2, 2>>, <<1, 2, 3, 4>>, <<TextRent, TextT1, Text5, Text3Gym>>)

\* C10: the list returned is in the order of the last-in-first-out traversal
\* (a node before its children, of the children the last first), and on the
\* scenario it is the Observation (3, "gym") and then (5, no comment), both
\* at Jan 1 2023 midnight
C10_LifoOrder ==
    frame.pc = "return" =>
        /\ trace = SelectSeq(RevPreorder(1), LAMBDA i : i \in Emittable)
        /\ data = ScenarioData =>
              frame.microstuffs = <<Microstuff(Jan1, 3, Some(<<"g","y","m">>)),
                                    Microstuff(Jan1, 5, None)>>

\* C10 witness: the call returned on the scenario
C10_Witness ==
    /\ frame.pc = "return"
    /\ data = ScenarioData
    /\ Len(frame.microstuffs) = 2

-----------------------------------------------------------------------------
(* Properties of parse_datetime, checked under SpecParse *)

\* the text holds a <time> element, and the first it holds
HasTimeElement(text) == \E i \in DOMAIN text : text[i] \in TimeTokens
FirstTimeElement(text) ==
    TimeElems[text[CHOOSE i \in DOMAIN text :
                      /\ text[i] \in TimeTokens
                      /\ \A j \in 1..(i - 1) : text[j] \notin TimeTokens]]
\* the value of an attribute that is there and an integer, else 0
IntegerOrZero(elem, name) ==
    IF /\ name \in DOMAIN elem.attrs
       /\ elem.attrs[name] # <<>>
       /\ \A i \in DOMAIN elem.attrs[name] : IsDigit(elem.attrs[name][i])
    THEN DigitsToInt(elem.attrs[name])
    ELSE 0

\* C11: on a text with a <time> element parse_datetime returns an instant
\* whose hour, minute and second are the element's attributes, each 0 when
\* the attribute is absent or is no integer, and it never raises for such an
\* attribute; on a text without the element it returns None and does not
\* raise
C11_OptionalFieldsDefaultToZero ==
    parse_ret # None =>
        /\ parse_ret[1].exc = ""
        /\ IF HasTimeElement(parse_arg)
           THEN /\ parse_ret[1].val # None
                /\ parse_ret[1].val[1][4] = IntegerOrZero(FirstTimeElement(parse_arg), "starthour")
                /\ parse_ret[1].val[1][5] = IntegerOrZero(FirstTimeElement(parse_arg), "startminute")
                /\ parse_ret[1].val[1][6] = IntegerOrZero(FirstTimeElement(parse_arg), "startsecond")
           ELSE parse_ret[1].val = None

-----------------------------------------------------------------------------
(* Roots of the same metric name, checked under Spec *)

\* the positions in the document of the tagged items, and the metric name
\* of one
TaggedNodes == {i \in DOMAIN data : MICROSTUFF_TAG_NAME \in find_tags(data[i].nm)}
NameOfNode(i) == metric_name_of(data[i].nm)
\* the last tagged item of the document with the name of the tagged item i
LastNamedLike(i) ==
    CHOOSE j \in TaggedNodes :
        /\ NameOfNode(j) = NameOfNode(i)
        /\ \A q \in TaggedNodes : NameOfNode(q) = NameOfNode(i) => q <= j
\* the observations below the tagged item i
ObservationsOf(i) == extract_microstuff(items[1].val, data[i].id).val

\* C12: after a run of update() that returned (every replacement committed),
\* the rows stored under the metric name of a tagged item are exactly the
\* observations of the last tagged item of the document with that name; the
\* observations of earlier items with the name are not kept beside them
C12_LastSameNamedRootWins ==
    pc = "done" =>
        \A i \in TaggedNodes :
            RowsUnder(db.table, NameOfNode(i))
                = ObservationRows(ObservationsOf(LastNamedLike(i)), NameOfNode(i))

\* C12 witness: a run returned on a document with two tagged items of one
\* name, the first with observations the second does not have
C12_Witness ==
    /\ pc = "done"
    /\ \E i, j \in TaggedNodes :
          /\ i < j
          /\ NameOfNode(i) = NameOfNode(j)
          /\ data[i].nm # data[j].nm
          /\ ObservationsOf(i) # <<>>
          /\ ObservationsOf(j) # <<>>
          /\ ObservationsOf(i) # ObservationsOf(j)

=============================================================================
